---------------------------- MODULE Spec2Model ----------------------------
(***************************************************************************)
(* Model of the iSAT STM32 telemetry agent (main.py, src/SensorRead.py,    *)
(* src/NoteConfig.py, src/DatalogSD.py): register decoding, profile-driven *)
(* sensor activation and polling, record flattening, the CSV/JSONL log on  *)
(* the SD card and the sequencing of main().                               *)
(*                                                                         *)
(* Conventions.  A Python str is a sequence of one-character strings, so   *)
(* that sorting, startswith, split and format are computed on characters.  *)
(* Multi-character atoms stand for texts whose inside is never inspected   *)
(* apart from a prefix test: "timestamp" (the header literal), "T1".."Tn"  *)
(* (one iso8601_now() result per cycle), "42.0", "None", "null" (rendered  *)
(* values).  A Python dict is a sequence of [k, v] entries in insertion    *)
(* order with unique keys.  A Python call is an operator returning a       *)
(* record whose field `raised` tells whether the call raised.              *)
(***************************************************************************)
EXTENDS Integers, Sequences, FiniteSets, TLC

VARIABLES
    pc,                 \* position of main() / of the function under study
    cycle,              \* number of the current wake-up
    profiles,           \* SENSOR_PROFILES (insertion-ordered dict)
    card, sd, modbus,   \* handles returned by the setup_* functions
    sensors_data,       \* main.sensors_data
    ts,                 \* main.ts
    sensors_data_flat,  \* main.sensors_data_flat
    saved,              \* value returned by save_to_sd in this cycle
    csv_file,           \* content of CSV_PATH (NoFile when missing)
    jsonl_file,         \* content of JSONL_PATH
    trace,              \* calls made on collaborators in this cycle
    bus,                \* what the bus answered to the activation writes (w)
                        \* and to the register reads (r) of this cycle
    saves,              \* what each save_to_sd call since power-up returned
    csv0,               \* content of CSV_PATH at power-up
    registers,          \* argument of modbus_registers_to_float
    decoded             \* its result

vars == <<pc, cycle, profiles, card, sd, modbus, sensors_data, ts,
          sensors_data_flat, saved, csv_file, jsonl_file, trace, bus,
          saves, csv0, registers, decoded>>

-----------------------------------------------------------------------------
(* Python values *)

\* an optional value (a handle, an int, a str that may be None) is a sequence
\* of length 0 or 1
None == <<>>

Some(x) == <<x>>

\* a float32 is kept as its IEEE-754 fields; the absent-marker has is_none
NoneValue == [is_none |-> TRUE, sign |-> 0, exponent |-> 0, fraction |-> 0]

Max(a, b) == IF a >= b THEN a ELSE b

Range(s) == {s[i] : i \in 1..Len(s)}

-----------------------------------------------------------------------------
(* src/SensorRead.py: modbus_registers_to_float *)

\* a Python int >= 0 as its binary digits, least significant first
RECURSIVE ToBits(_)
ToBits(n) == IF n = 0 THEN <<>> ELSE <<n % 2>> \o ToBits(n \div 2)

\* x << k
ShiftLeft(bits, k) == [i \in 1..k |-> 0] \o bits

\* x | y
BitOr(a, b) ==
    [i \in 1..Max(Len(a), Len(b)) |->
        IF (i <= Len(a) /\ a[i] = 1) \/ (i <= Len(b) /\ b[i] = 1) THEN 1 ELSE 0]

Bit(bits, i) == IF i <= Len(bits) THEN bits[i] ELSE 0

\* the byte made of bits lo .. lo+7 (lo counted from 1, least significant)
ByteAt(bits, lo) ==
    Bit(bits, lo) + 2 * Bit(bits, lo + 1) + 4 * Bit(bits, lo + 2)
    + 8 * Bit(bits, lo + 3) + 16 * Bit(bits, lo + 4) + 32 * Bit(bits, lo + 5)
    + 64 * Bit(bits, lo + 6) + 128 * Bit(bits, lo + 7)

\* struct.pack(">I", raw): four bytes, most significant first; struct.error
\* when raw does not fit in 32 bits
pack_I(bits) ==
    IF \E i \in 33..Len(bits) : bits[i] = 1
    THEN [raised |-> TRUE, bytes |-> <<>>]
    ELSE [raised |-> FALSE,
          bytes |-> <<ByteAt(bits, 25), ByteAt(bits, 17),
                      ByteAt(bits, 9), ByteAt(bits, 1)>>]

\* struct.unpack(">f", b)[0]: the same 32 bits read as sign, exponent, fraction
unpack_f(bytes) ==
    [is_none  |-> FALSE,
     sign     |-> bytes[1] \div 128,
     exponent |-> (bytes[1] % 128) * 2 + bytes[2] \div 128,
     fraction |-> (bytes[2] % 128) * 65536 + bytes[3] * 256 + bytes[4]]

\* the raw word with the two registers in the wrong order
raw_value_swapped(regs) == BitOr(ShiftLeft(ToBits(regs[2]), 16), ToBits(regs[1]))

\* raw_value = (registers[0] << 16) | registers[1]
raw_value(regs) == BitOr(ShiftLeft(ToBits(regs[1]), 16), ToBits(regs[2]))

\* a decoder that takes the first two registers (pads with 0) instead of failing
modbus_registers_to_float_lenient(regs) ==
    LET padded == [i \in 1..2 |-> IF i <= Len(regs) THEN regs[i] ELSE 0]
        packed == pack_I(raw_value(padded))
    IN  [raised |-> FALSE, value |-> unpack_f(packed.bytes)]

modbus_registers_to_float(regs) ==
    IF Len(regs) # 2
    THEN [raised |-> TRUE, value |-> NoneValue]
    ELSE LET packed == pack_I(raw_value(regs))
         IN  IF packed.raised
             THEN [raised |-> TRUE, value |-> NoneValue]
             ELSE [raised |-> FALSE, value |-> unpack_f(packed.bytes)]

-----------------------------------------------------------------------------
(* Python str, sorted() and dict *)

\* ord(c) for the characters that occur in device ids and parameter names
Ord(c) ==
    CASE c = "A" -> 65
      [] c = "B" -> 66
      [] c = "N" -> 78
      [] c = "_" -> 95
      [] c = "b" -> 98
      [] c = "c" -> 99
      [] c = "e" -> 101
      [] c = "n" -> 110
      [] c = "o" -> 111
      [] c = "t" -> 116

\* a < b on str: the first differing character decides, a proper prefix is less
RECURSIVE StrLess(_, _)
StrLess(a, b) ==
    IF b = <<>> THEN FALSE
    ELSE IF a = <<>> THEN TRUE
    ELSE IF Head(a) = Head(b) THEN StrLess(Tail(a), Tail(b))
    ELSE Ord(Head(a)) < Ord(Head(b))

\* insertion of one key into a sorted list, before the first greater key
RECURSIVE InsertSorted(_, _)
InsertSorted(k, s) ==
    IF s = <<>> THEN <<k>>
    ELSE IF StrLess(k, Head(s)) THEN <<k>> \o s
    ELSE <<Head(s)>> \o InsertSorted(k, Tail(s))

\* sorted(keys)
RECURSIVE sorted(_)
sorted(keys) ==
    IF keys = <<>> THEN <<>>
    ELSE InsertSorted(keys[Len(keys)], sorted(SubSeq(keys, 1, Len(keys) - 1)))

\* d.keys(), in insertion order
DictKeys(d) == [i \in 1..Len(d) |-> d[i].k]

DictHas(d, key) == \E i \in 1..Len(d) : d[i].k = key

\* d[key]
DictGet(d, key) == d[CHOOSE i \in 1..Len(d) : d[i].k = key].v

\* d[key] = value: an existing key keeps its place, a new key goes last
DictSet(d, key, value) ==
    IF DictHas(d, key)
    THEN [i \in 1..Len(d) |-> IF d[i].k = key THEN [k |-> key, v |-> value] ELSE d[i]]
    ELSE Append(d, [k |-> key, v |-> value])

\* str(x) for a name that may be None
StrOfName(name) == IF name = None THEN <<"N", "o", "n", "e">> ELSE name[1]

\* a key made of the parameter name alone
format_key_param_only(sensor, param) == StrOfName(param)

\* "{}_{}".format(sensor, param)
format_key(sensor, param) == sensor \o <<"_">> \o StrOfName(param)

-----------------------------------------------------------------------------
(* main.py: flatten_sensor_data *)

\* the inner loop: for param, value in params.items()
RECURSIVE FlattenParams(_, _, _, _)
FlattenParams(flat, sensor, params, i) ==
    IF i > Len(params) THEN flat
    ELSE FlattenParams(DictSet(flat, format_key(sensor, params[i].k), params[i].v),
                       sensor, params, i + 1)

\* the outer loop: for sensor, params in sensor_data.items()
RECURSIVE FlattenSensors(_, _, _)
FlattenSensors(flat, sensor_data, i) ==
    IF i > Len(sensor_data) THEN flat
    ELSE FlattenSensors(FlattenParams(flat, sensor_data[i].k, sensor_data[i].v, 1),
                        sensor_data, i + 1)

flatten_sensor_data(sensor_data) == FlattenSensors(<<>>, sensor_data, 1)


-----------------------------------------------------------------------------
(* main.py: the tabular (CSV) and the structured (JSONL) sink *)

\* one call made on a collaborator (bus, storage, gateway, clock) or the start
\* of a phase of main()
Event(op, dev, a, b) == [op |-> op, dev |-> dev, a |-> a, b |-> b]

\* str(value) of a reading: str(None) and the repr of the float
StrOfValue(v) ==
    IF v.is_none THEN "None"
    ELSE IF v.sign = 0 /\ v.exponent = 132 /\ v.fraction = 2621440 THEN "42.0"
    ELSE IF v.sign = 0 /\ v.exponent = 0 /\ v.fraction = 0 THEN "0.0"
    ELSE "float"

\* json.dumps(value) of a reading
JsonOfValue(v) == IF v.is_none THEN "null" ELSE StrOfValue(v)

\* sep.join(parts): parts is a list of str
RECURSIVE Join(_, _)
Join(parts, sep) ==
    IF parts = <<>> THEN <<>>
    ELSE IF Len(parts) = 1 THEN parts[1]
    ELSE parts[1] \o <<sep>> \o Join(Tail(parts), sep)

IsSpace(c) == c = " " \/ c = "\n"

\* s.strip()
RECURSIVE strip(_)
strip(s) ==
    IF s = <<>> THEN s
    ELSE IF IsSpace(Head(s)) THEN strip(Tail(s))
    ELSE IF IsSpace(s[Len(s)]) THEN strip(SubSeq(s, 1, Len(s) - 1))
    ELSE s

\* f.readline() at the start of the file: up to and including the first "\n"
readline(content) ==
    IF \E i \in 1..Len(content) : content[i] = "\n"
    THEN SubSeq(content, 1, CHOOSE i \in 1..Len(content) :
                                /\ content[i] = "\n"
                                /\ \A j \in 1..(i - 1) : content[j] # "\n")
    ELSE content

\* header.startswith("timestamp")
startswith_timestamp(s) == s # <<>> /\ Head(s) = "timestamp"

\* "timestamp," + ",".join(keys) + "\n"
HeaderLine(keys) == <<"timestamp", ",">> \o Join(keys, ",") \o <<"\n">>

\* timestamp + "," + ",".join(values) + "\n"
RowLine(timestamp, flat_dict, keys) ==
    <<timestamp, ",">>
    \o Join([i \in 1..Len(keys) |-> <<StrOfValue(DictGet(flat_dict, keys[i]))>>], ",")
    \o <<"\n">>

\* a header check that never looks at the file: the header is always written
ensure_csv_header_always(file, flat_dict, fail) ==
    IF fail = "header_open"
    THEN [raised |-> TRUE, file |-> file, ops |-> <<Event("csv_header", <<>>, 0, 0)>>]
    ELSE IF fail = "header_write"
    THEN [raised |-> TRUE, file |-> Some(<<>>),
          ops |-> <<Event("csv_header", <<>>, 0, 0)>>]
    ELSE [raised |-> FALSE,
          file |-> Some(HeaderLine(sorted(DictKeys(flat_dict)))),
          ops |-> <<Event("csv_header", <<>>, 0, 0)>>]

\* ensure_csv_header(path, flat_dict).  `file` is the content of path (None
\* when it does not exist); `fail` names the file operation that raises in
\* this call if it is attempted.  open(path, "r") of a missing file raises and
\* the bare except swallows it; reading a file that exists does not fail;
\* open(path, "w") truncates.
ensure_csv_header(file, flat_dict, fail) ==
    IF file # None /\ startswith_timestamp(strip(readline(file[1])))
    THEN [raised |-> FALSE, file |-> file, ops |-> <<>>]
    ELSE IF fail = "header_open"
    THEN [raised |-> TRUE, file |-> file, ops |-> <<Event("csv_header", <<>>, 0, 0)>>]
    ELSE IF fail = "header_write"
    THEN [raised |-> TRUE, file |-> Some(<<>>),
          ops |-> <<Event("csv_header", <<>>, 0, 0)>>]
    ELSE [raised |-> FALSE,
          file |-> Some(HeaderLine(sorted(DictKeys(flat_dict)))),
          ops |-> <<Event("csv_header", <<>>, 0, 0)>>]

\* content of a file opened with "a": a missing file is created empty
Opened(file) == IF file = None THEN <<>> ELSE file[1]

\* append_csv_row(path, timestamp, flat_dict)
append_csv_row(file, timestamp, flat_dict, fail) ==
    IF fail = "csv_row"
    THEN [raised |-> TRUE, file |-> file, ops |-> <<Event("csv_row", <<>>, 0, 0)>>]
    ELSE [raised |-> FALSE,
          file |-> Some(Opened(file)
                        \o RowLine(timestamp, flat_dict, sorted(DictKeys(flat_dict)))),
          ops |-> <<Event("csv_row", <<>>, 0, 0)>>]

\* record = {"timestamp": timestamp}; record.update(flat_dict)
RECURSIVE DictUpdate(_, _, _)
DictUpdate(record, other, i) ==
    IF i > Len(other) THEN record
    ELSE DictUpdate(DictSet(record, other[i].k, other[i].v), other, i + 1)

\* json.dumps(record): {"key": value, ...} in the order of the record
JsonLine(timestamp, flat_dict) ==
    LET record == DictUpdate(<<[k |-> <<"timestamp">>, v |-> NoneValue]>>, flat_dict, 1)
        item(i) == <<"\"">> \o record[i].k \o <<"\"", ":">>
                   \o (IF record[i].k = <<"timestamp">> THEN <<"\"", timestamp, "\"">>
                       ELSE <<JsonOfValue(record[i].v)>>)
    IN  <<"{">> \o Join([i \in 1..Len(record) |-> item(i)], ",") \o <<"}", "\n">>

\* append_jsonl_record(path, timestamp, flat_dict)
append_jsonl_record(file, timestamp, flat_dict, fail) ==
    IF fail = "jsonl"
    THEN [raised |-> TRUE, file |-> file, ops |-> <<Event("jsonl", <<>>, 0, 0)>>]
    ELSE [raised |-> FALSE,
          file |-> Some(Opened(file) \o JsonLine(timestamp, flat_dict)),
          ops |-> <<Event("jsonl", <<>>, 0, 0)>>]

\* save_to_sd with the exception of a file operation left to propagate
save_to_sd_raising(sd_, csv, jsonl, timestamp, flat_data, fail) ==
    IF sd_ = None
    THEN [raised |-> FALSE, ret |-> FALSE, csv |-> csv, jsonl |-> jsonl, ops |-> <<>>]
    ELSE
    LET h == ensure_csv_header(csv, flat_data, fail)
        r == append_csv_row(h.file, timestamp, flat_data, fail)
        j == append_jsonl_record(jsonl, timestamp, flat_data, fail)
    IN  IF h.raised
        THEN [raised |-> TRUE, ret |-> FALSE, csv |-> h.file, jsonl |-> jsonl,
              ops |-> h.ops]
        ELSE IF r.raised
        THEN [raised |-> TRUE, ret |-> FALSE, csv |-> r.file, jsonl |-> jsonl,
              ops |-> h.ops \o r.ops]
        ELSE IF j.raised
        THEN [raised |-> TRUE, ret |-> FALSE, csv |-> r.file, jsonl |-> j.file,
              ops |-> h.ops \o r.ops \o j.ops]
        ELSE [raised |-> FALSE, ret |-> TRUE, csv |-> r.file, jsonl |-> j.file,
              ops |-> h.ops \o r.ops \o j.ops]

\* save_to_sd(sd, csv_path, jsonl_path, timestamp, flat_data): one try block
\* around the three calls, so the first one that raises ends the block
save_to_sd(sd_, csv, jsonl, timestamp, flat_data, fail) ==
    IF sd_ = None
    THEN [raised |-> FALSE, ret |-> FALSE, csv |-> csv, jsonl |-> jsonl, ops |-> <<>>]
    ELSE
    LET h == ensure_csv_header(csv, flat_data, fail)
        r == append_csv_row(h.file, timestamp, flat_data, fail)
        j == append_jsonl_record(jsonl, timestamp, flat_data, fail)
    IN  IF h.raised
        THEN [raised |-> FALSE, ret |-> FALSE, csv |-> h.file, jsonl |-> jsonl,
              ops |-> h.ops]
        ELSE IF r.raised
        THEN [raised |-> FALSE, ret |-> FALSE, csv |-> r.file, jsonl |-> jsonl,
              ops |-> h.ops \o r.ops]
        ELSE IF j.raised
        THEN [raised |-> FALSE, ret |-> FALSE, csv |-> r.file, jsonl |-> j.file,
              ops |-> h.ops \o r.ops \o j.ops]
        ELSE [raised |-> FALSE, ret |-> TRUE, csv |-> r.file, jsonl |-> j.file,
              ops |-> h.ops \o r.ops \o j.ops]


-----------------------------------------------------------------------------
(* src/SensorRead.py: the two bus calls.  `answer` is what the addressed     *)
(* peer does: it fails (timeout or malformed frame, the driver raises) or it *)
(* replies, a read with the registers `regs` it holds from the address read. *)

\* the peer does not answer
BusFail == [fail |-> TRUE, regs |-> <<>>]

\* the peer answers; it holds 0x4228, 0x0000, 0x0000 from the address read
BusOk == [fail |-> FALSE, regs |-> <<16936, 0, 0>>]

\* write_single_register(rs485, slave_addr, register_addr, register_value)
write_single_register(slave_addr, register_addr, register_value, answer) ==
    [raised |-> answer.fail]

\* read_holding_registers(rs485, slave_addr, starting_addr, register_qty, signed):
\* on success the list holds register_qty registers of the peer
read_holding_registers(slave_addr, starting_addr, register_qty, answer) ==
    IF answer.fail
    THEN [raised |-> TRUE, regs |-> <<>>]
    ELSE [raised |-> FALSE,
          regs |-> SubSeq(answer.regs, 1,
                          IF register_qty <= Len(answer.regs) THEN register_qty
                          ELSE Len(answer.regs))]

-----------------------------------------------------------------------------
(* main.py: activate_all_sensors, read_sensor, read_all_sensors *)

\* the loop of activate_all_sensors with max_warmup_ms updated after the test
\* of the activation fields, so that a skipped profile does not count
RECURSIVE ActivateLoop_warmup_of_activated(_, _, _, _)
ActivateLoop_warmup_of_activated(table, answers, i, acc) ==
    IF i > Len(table) THEN acc
    ELSE
    LET sensor_id == table[i].k
        profile   == table[i].v
        slave     == profile.slave_addr
        reg       == profile.start_register
        value     == profile.start_value
        warmup    == Max(acc.max_warmup_ms, profile.warmup_ms)
    IN  IF slave = None \/ reg = None \/ value = None
        THEN ActivateLoop_warmup_of_activated(table, answers, i + 1, acc)
        ELSE
        LET w == write_single_register(slave[1], reg[1], value[1], answers[i])
        IN  ActivateLoop_warmup_of_activated(table, answers, i + 1,
                 [acc EXCEPT !.max_warmup_ms = warmup,
                             !.ops = Append(@, Event("write", sensor_id, reg[1], value[1])),
                             !.warnings = IF w.raised THEN Append(@, sensor_id) ELSE @])

\* the loop of activate_all_sensors over SENSOR_PROFILES.items(); acc holds
\* max_warmup_ms, the calls made so far and the sensors whose write raised
\* (caught, printed as a warning)
RECURSIVE ActivateLoop(_, _, _, _)
ActivateLoop(table, answers, i, acc) ==
    IF i > Len(table) THEN acc
    ELSE
    LET sensor_id == table[i].k
        profile   == table[i].v
        slave     == profile.slave_addr
        reg       == profile.start_register
        value     == profile.start_value
        warmup    == Max(acc.max_warmup_ms, profile.warmup_ms)
    IN  IF slave = None \/ reg = None \/ value = None
        THEN ActivateLoop(table, answers, i + 1,
                          [acc EXCEPT !.max_warmup_ms = warmup])
        ELSE
        LET w == write_single_register(slave[1], reg[1], value[1], answers[i])
        IN  ActivateLoop(table, answers, i + 1,
                 [acc EXCEPT !.max_warmup_ms = warmup,
                             !.ops = Append(@, Event("write", sensor_id, reg[1], value[1])),
                             !.warnings = IF w.raised THEN Append(@, sensor_id) ELSE @])

\* activate_all_sensors(modbus): a write that raises is caught and printed
activate_all_sensors(modbus_, table, answers) ==
    IF modbus_ = None
    THEN [raised |-> FALSE, ops |-> <<>>]
    ELSE
    LET acc == ActivateLoop(table, answers, 1,
                            [max_warmup_ms |-> 0, ops |-> <<>>, warnings |-> <<>>])
    IN  [raised |-> FALSE,
         ops |-> IF acc.max_warmup_ms > 0
                 THEN Append(acc.ops, Event("sleep", <<>>, acc.max_warmup_ms, 0))
                 ELSE acc.ops]

\* one iteration of read_sensor's loop: `for param in params`
read_param(acc, sensor_id, slave, param, answer) ==
    IF param.name = None \/ param.addr = None
    THEN [acc EXCEPT !.result = DictSet(@, param.name, NoneValue)]
    ELSE
    LET raw   == read_holding_registers(slave, param.addr[1], param.qty, answer)
        value == modbus_registers_to_float(raw.regs)
        ev    == Event("read", sensor_id, param.addr[1], param.qty)
    IN  IF raw.raised \/ value.raised
        THEN [result |-> DictSet(acc.result, param.name, NoneValue),
              ops    |-> Append(acc.ops, ev)]
        ELSE [result |-> DictSet(acc.result, param.name, value.value),
              ops    |-> Append(acc.ops, ev)]

RECURSIVE ReadParams(_, _, _, _, _, _)
ReadParams(acc, sensor_id, slave, params, answers, i) ==
    IF i > Len(params) THEN acc
    ELSE ReadParams(read_param(acc, sensor_id, slave, params[i], answers[i]),
                    sensor_id, slave, params, answers, i + 1)

\* read_sensor with the try around the whole loop: the first read or decode
\* that fails ends the loop and the exception reaches read_all_sensors
read_sensor_no_catch(modbus_, sensor_id, profile, answers) ==
    IF modbus_ = None \/ profile.slave_addr = None \/ profile.params = <<>>
    THEN [raised |-> FALSE, result |-> <<>>, ops |-> <<>>]
    ELSE
    LET params == profile.params
        bad == {i \in 1..Len(params) :
                    /\ params[i].name # None /\ params[i].addr # None
                    /\ (answers[i].fail \/ params[i].qty # 2)}
        last == IF bad = {} THEN Len(params)
                ELSE CHOOSE i \in bad : \A j \in bad : i <= j
        acc == ReadParams([result |-> <<>>, ops |-> <<>>], sensor_id,
                          profile.slave_addr, SubSeq(params, 1, last), answers, 1)
    IN  [raised |-> bad # {}, result |-> acc.result, ops |-> acc.ops]

\* read_sensor without the test of slave_addr
read_sensor_unguarded(modbus_, sensor_id, profile, answers) ==
    IF modbus_ = None \/ profile.params = <<>>
    THEN [raised |-> FALSE, result |-> <<>>, ops |-> <<>>]
    ELSE
    LET acc == ReadParams([result |-> <<>>, ops |-> <<>>], sensor_id,
                          profile.slave_addr, profile.params, answers, 1)
    IN  [raised |-> FALSE, result |-> acc.result, ops |-> acc.ops]

\* read_sensor(modbus, sensor_id, profile)
read_sensor(modbus_, sensor_id, profile, answers) ==
    IF modbus_ = None \/ profile.slave_addr = None \/ profile.params = <<>>
    THEN [raised |-> FALSE, result |-> <<>>, ops |-> <<>>]
    ELSE
    LET acc == ReadParams([result |-> <<>>, ops |-> <<>>], sensor_id,
                          profile.slave_addr, profile.params, answers, 1)
    IN  [raised |-> FALSE, result |-> acc.result, ops |-> acc.ops]

\* the loop of read_all_sensors over SENSOR_PROFILES.items()
RECURSIVE ReadAllLoop(_, _, _, _, _)
ReadAllLoop(modbus_, table, answers, i, acc) ==
    IF i > Len(table) THEN acc
    ELSE
    LET r == read_sensor(modbus_, table[i].k, table[i].v, answers[i])
    IN  ReadAllLoop(modbus_, table, answers, i + 1,
            [data |-> DictSet(acc.data, table[i].k, IF r.raised THEN <<>> ELSE r.result),
             ops  |-> acc.ops \o r.ops])

\* read_all_sensors(modbus)
read_all_sensors(modbus_, table, answers) ==
    IF modbus_ = None
    THEN [data |-> <<>>, ops |-> <<>>]
    ELSE ReadAllLoop(modbus_, table, answers, 1, [data |-> <<>>, ops |-> <<>>])


-----------------------------------------------------------------------------
(* main.py: SENSOR_PROFILES.  The table is a parameter of the model: Init    *)
(* draws it from ProfileTables, which holds profiles of the shapes found in  *)
(* the source (a full profile, an all-None placeholder) and the malformed    *)
(* shapes the code guards against.  As in the source, the names of the       *)
(* parameters of one profile differ.                                         *)

Param(name, addr, qty) == [name |-> name, addr |-> addr, qty |-> qty]

Profile(slave, reg, value, warmup, params) ==
    [slave_addr |-> slave, start_register |-> reg, start_value |-> value,
     warmup_ms |-> warmup, params |-> params]

NameT == <<"t">>
NameC == <<"c">>

\* like "C4E": every field set, two parameters of two registers each
FullProfile ==
    Profile(Some(30), Some(1), Some(15), 400,
            <<Param(Some(NameT), Some(83), 2), Param(Some(NameC), Some(85), 2)>>)

\* like "SENSOR4_KELLER": a placeholder
PlaceholderProfile == Profile(None, None, None, 0, <<>>)

\* no bus address, every other field set, the longest warm-up
NoAddressProfile ==
    Profile(None, Some(1), Some(15), 800, <<Param(Some(NameT), Some(83), 2)>>)

\* no activation register; parameters declared with 1 and 3 registers
OddQtyProfile ==
    Profile(Some(40), None, Some(15), 0,
            <<Param(Some(NameT), Some(83), 1), Param(Some(NameC), Some(85), 3)>>)

\* a parameter entry without name, then one without addr, then a good one
BadParamProfile ==
    Profile(Some(50), Some(1), Some(15), 400,
            <<Param(None, Some(83), 2), Param(Some(NameT), None, 2),
              Param(Some(NameC), Some(85), 2)>>)

\* a bus address and no parameters
NoParamsProfile == Profile(Some(30), Some(1), Some(15), 400, <<>>)

\* two parameter entries without name
TwoNamelessProfile ==
    Profile(Some(50), None, None, 0,
            <<Param(None, Some(83), 2), Param(None, Some(85), 2)>>)

ProfileShapes ==
    {FullProfile, PlaceholderProfile, NoAddressProfile, OddQtyProfile,
     BadParamProfile, NoParamsProfile, TwoNamelessProfile}

DeviceIds == {<<"A">>, <<"B">>}

\* one device, or two devices with different ids in either order
ProfileTables ==
    {<<[k |-> d, v |-> p]>> : d \in {<<"A">>}, p \in ProfileShapes}
    \cup {t \in {<<[k |-> d1, v |-> p1], [k |-> d2, v |-> p2]>> :
                    d1 \in DeviceIds, d2 \in DeviceIds, p1 \in ProfileShapes,
                    p2 \in {FullProfile, PlaceholderProfile}} :
            t[1].k # t[2].k}

Answers == {BusOk, BusFail}

\* one answer of the bus per profile (activation writes)
WriteAnswers(table) == [1..Len(table) -> Answers]

\* one answer of the bus per declared parameter (register reads)
ReadAnswers(table) ==
    {a \in [1..Len(table) -> UNION {[1..n -> Answers] : n \in 0..3}] :
        \A i \in 1..Len(table) : Len(a[i]) = Len(table[i].v.params)}

\* the file operation of save_to_sd that raises, if it is attempted
FsFailures == {"none", "header_open", "header_write", "csv_row", "jsonl"}

\* contents CSV_PATH may have at power-up: no file, or a file that holds a
\* row of an earlier run and no header line
InitialCsv == {None, Some(<<"T0", ",", "42.0", "\n">>)}

-----------------------------------------------------------------------------
(* main.py: main().  Each action is one call of main(), in order. *)

MaxCycles == 2

Handle == Some("handle")

NoBus == [w |-> <<>>, r |-> <<>>]

\* iso8601_now(): one text per wake-up
iso8601_now(n) == "T" \o ToString(n)

CodecIdle == /\ registers = <<>>
             /\ decoded = [raised |-> FALSE, value |-> NoneValue]

Init ==
    /\ pc = "boot"
    /\ cycle = 1
    /\ profiles \in ProfileTables
    /\ card = None /\ sd = None /\ modbus = None
    /\ sensors_data = <<>>
    /\ ts = ""
    /\ sensors_data_flat = <<>>
    /\ saved = FALSE
    /\ csv_file \in InitialCsv
    /\ jsonl_file = None
    /\ trace = <<>>
    /\ bus = NoBus
    /\ saves = <<>>
    /\ csv0 = csv_file
    /\ CodecIdle

\* card = setup_notecard(); card.Transaction({"req": "card.version"}):
\* an exception here leaves main()
SetupNotecard ==
    /\ pc = "boot"
    /\ \E ok \in BOOLEAN :
        IF ok THEN card' = Handle /\ pc' = "ota"
        ELSE card' = card /\ pc' = "crashed"
    /\ UNCHANGED <<cycle, profiles, sd, modbus, sensors_data, ts, sensors_data_flat,
                   saved, csv_file, jsonl_file, trace, bus, saves, csv0,
                   registers, decoded>>

\* check_ota_update(card): nothing pending, a Transaction that raises, or a
\* new main.py written and machine.reset()
CheckOta ==
    /\ pc = "ota"
    /\ \E outcome \in {"none", "raised", "reset"} :
        pc' = CASE outcome = "none" -> "setup_sd"
                [] outcome = "raised" -> "crashed"
                [] outcome = "reset" -> "reset"
    /\ UNCHANGED <<cycle, profiles, card, sd, modbus, sensors_data, ts,
                   sensors_data_flat, saved, csv_file, jsonl_file, trace, bus,
                   saves, csv0, registers, decoded>>

\* sd = setup_sd_card(): the handle, or None when mount_sdcard raises
SetupSd ==
    /\ pc = "setup_sd"
    /\ sd' \in {None, Handle}
    /\ pc' = "setup_modbus"
    /\ UNCHANGED <<cycle, profiles, card, modbus, sensors_data, ts, sensors_data_flat,
                   saved, csv_file, jsonl_file, trace, bus, saves, csv0,
                   registers, decoded>>

\* the master, or None when ModbusRTUMaster(uart_id=1) raises
setup_modbus(ok) == IF ok THEN Handle ELSE None

\* modbus = setup_modbus()
SetupModbus ==
    /\ pc = "setup_modbus"
    /\ \E ok \in BOOLEAN : modbus' = setup_modbus(ok)
    /\ pc' = "activate"
    /\ UNCHANGED <<cycle, profiles, card, sd, sensors_data, ts, sensors_data_flat,
                   saved, csv_file, jsonl_file, trace, bus, saves, csv0,
                   registers, decoded>>

\* activate_all_sensors(modbus)
Activate ==
    /\ pc = "activate"
    /\ \E answers \in WriteAnswers(profiles) :
        LET r == activate_all_sensors(modbus, profiles, answers)
        IN  /\ bus' = [bus EXCEPT !.w = answers]
            /\ trace' = trace \o <<Event("activation", <<>>, 0, 0)>> \o r.ops
            /\ pc' = IF r.raised THEN "crashed" ELSE "read"
    /\ UNCHANGED <<cycle, profiles, card, sd, modbus, sensors_data, ts,
                   sensors_data_flat, saved, csv_file, jsonl_file, saves, csv0,
                   registers, decoded>>

\* sensors_data = read_all_sensors(modbus)
ReadAll ==
    /\ pc = "read"
    /\ \E answers \in ReadAnswers(profiles) :
        LET r == read_all_sensors(modbus, profiles, answers)
        IN  /\ bus' = [bus EXCEPT !.r = answers]
            /\ sensors_data' = r.data
            /\ trace' = trace \o <<Event("poll", <<>>, 0, 0)>> \o r.ops
    /\ pc' = "timestamp"
    /\ UNCHANGED <<cycle, profiles, card, sd, modbus, ts, sensors_data_flat, saved,
                   csv_file, jsonl_file, saves, csv0, registers, decoded>>

\* ts = iso8601_now(); the bus is not used after polling and its answers are
\* forgotten here
Timestamp ==
    /\ pc = "timestamp"
    /\ ts' = iso8601_now(cycle)
    /\ pc' = "flatten"
    /\ bus' = NoBus
    /\ UNCHANGED <<cycle, profiles, card, sd, modbus, sensors_data, sensors_data_flat,
                   saved, csv_file, jsonl_file, trace, saves, csv0,
                   registers, decoded>>

\* sensors_data_flat = flatten_sensor_data(sensors_data)
Flatten ==
    /\ pc = "flatten"
    /\ sensors_data_flat' = flatten_sensor_data(sensors_data)
    /\ trace' = Append(trace, Event("flatten", <<>>, 0, 0))
    /\ pc' = "save"
    /\ UNCHANGED <<cycle, profiles, card, sd, modbus, sensors_data, ts, saved,
                   csv_file, jsonl_file, bus, saves, csv0, registers, decoded>>

\* save_to_sd(sd, CSV_PATH, JSONL_PATH, ts, sensors_data_flat)
Save ==
    /\ pc = "save"
    /\ \E fail \in FsFailures :
        LET r == save_to_sd(sd, csv_file, jsonl_file, ts, sensors_data_flat, fail)
        IN  /\ csv_file' = r.csv
            /\ jsonl_file' = r.jsonl
            /\ saved' = r.ret
            /\ saves' = Append(saves, r.ret)
            /\ trace' = trace \o <<Event("log", <<>>, 0, 0)>> \o r.ops
                        \o <<Event("log_returned", <<>>, 0, 0)>>
            /\ pc' = IF r.raised THEN "crashed" ELSE "send"
    /\ UNCHANGED <<cycle, profiles, card, sd, modbus, sensors_data, ts,
                   sensors_data_flat, bus, csv0, registers, decoded>>

\* send_data_to_notecard with the exception of send_sensor_data left to
\* propagate
send_data_to_notecard_no_catch(ok) ==
    [raised |-> ~ok, ops |-> <<Event("uplink", <<>>, IF ok THEN 1 ELSE 0, 0)>>]

\* send_data_to_notecard(card, ts, sensors_data_flat): an error of the gateway
\* is printed by send_sensor_data, and caught here otherwise; the event holds
\* 1 when the call went through and 0 when it failed
send_data_to_notecard(ok) ==
    [raised |-> FALSE, ops |-> <<Event("uplink", <<>>, IF ok THEN 1 ELSE 0, 0)>>]

Send ==
    /\ pc = "send"
    /\ \E ok \in BOOLEAN :
        LET r == send_data_to_notecard(ok)
        IN  /\ trace' = trace \o r.ops
            /\ pc' = IF r.raised THEN "crashed" ELSE "sync"
    /\ UNCHANGED <<cycle, profiles, card, sd, modbus, sensors_data, ts,
                   sensors_data_flat, saved, csv_file, jsonl_file, bus, saves, csv0,
                   registers, decoded>>

\* sync_notecard_now(card): what sync_notecard raises is caught and printed;
\* the event holds 1 when the call went through and 0 when it failed
sync_notecard_now(ok) ==
    [raised |-> FALSE, ops |-> <<Event("sync", <<>>, IF ok THEN 1 ELSE 0, 0)>>]

\* time.sleep(2); sync_notecard_now(card)
Sync ==
    /\ pc = "sync"
    /\ \E ok \in BOOLEAN :
        LET r == sync_notecard_now(ok)
        IN  /\ trace' = trace \o r.ops
            /\ pc' = IF r.raised THEN "crashed" ELSE "shutdown"
    /\ UNCHANGED <<cycle, profiles, card, sd, modbus, sensors_data, ts,
                   sensors_data_flat, saved, csv_file, jsonl_file, bus, saves, csv0,
                   registers, decoded>>

\* shutdown_sd_card(sd): unmount_sdcard is called unless sd is None; what it
\* raises is caught
shutdown_sd_card(sd_) ==
    IF sd_ = None THEN <<>> ELSE <<Event("unmount", <<>>, 0, 0)>>

\* if sd is not None: shutdown_sd_card(sd)
Shutdown ==
    /\ pc = "shutdown"
    /\ trace' = trace \o (IF sd # None THEN shutdown_sd_card(sd) ELSE <<>>)
    /\ pc' = "done"
    /\ UNCHANGED <<cycle, profiles, card, sd, modbus, sensors_data, ts,
                   sensors_data_flat, saved, csv_file, jsonl_file, bus, saves, csv0,
                   registers, decoded>>

\* the next wake-up (deep sleep ends, or the board is reset): main() runs
\* again from the top; only the files on the card are kept
WakeUp ==
    /\ pc \in {"done", "crashed", "reset"}
    /\ cycle < MaxCycles
    /\ cycle' = cycle + 1
    /\ pc' = "boot"
    /\ card' = None /\ sd' = None /\ modbus' = None
    /\ sensors_data' = <<>>
    /\ ts' = ""
    /\ sensors_data_flat' = <<>>
    /\ saved' = FALSE
    /\ trace' = <<>>
    /\ bus' = NoBus
    /\ UNCHANGED <<profiles, csv_file, jsonl_file, saves, csv0, registers, decoded>>

Next ==
    \/ SetupNotecard
    \/ CheckOta
    \/ SetupSd
    \/ SetupModbus
    \/ Activate
    \/ ReadAll
    \/ Timestamp
    \/ Flatten
    \/ Save
    \/ Send
    \/ Sync
    \/ Shutdown
    \/ WakeUp

Spec == Init /\ [][Next]_vars


-----------------------------------------------------------------------------
(* modbus_registers_to_float on its own: Init draws the register list *)

MaxRegs == 3

\* 0x0000, 0x0001, 0x00FF, 0x4228, 0x8000, 0xFFFF
Words == {0, 1, 255, 16936, 32768, 65535}

RegisterLists == UNION {[1..n -> Words] : n \in 0..MaxRegs}

MainIdle ==
    /\ cycle = 1
    /\ profiles = <<>>
    /\ card = None /\ sd = None /\ modbus = None
    /\ ts = ""
    /\ sensors_data_flat = <<>>
    /\ saved = FALSE
    /\ csv_file = None
    /\ jsonl_file = None
    /\ trace = <<>>
    /\ bus = NoBus
    /\ saves = <<>>
    /\ csv0 = None

InitCodec ==
    /\ pc = "codec_call"
    /\ registers \in RegisterLists
    /\ decoded = [raised |-> FALSE, value |-> NoneValue]
    /\ sensors_data = <<>>
    /\ MainIdle

\* value = modbus_registers_to_float(raw)
Decode ==
    /\ pc = "codec_call"
    /\ decoded' = modbus_registers_to_float(registers)
    /\ pc' = "codec_done"
    /\ UNCHANGED <<cycle, profiles, card, sd, modbus, sensors_data, ts,
                   sensors_data_flat, saved, csv_file, jsonl_file, trace, bus,
                   saves, csv0, registers>>

\* read_sensor on a profile of one parameter whose read returns `registers`
ReadOne ==
    /\ pc = "codec_done"
    /\ LET profile == Profile(Some(30), Some(1), Some(15), 400,
                               <<Param(Some(NameT), Some(83), Len(registers))>>)
           r == read_sensor(Handle, <<"A">>, profile,
                            <<[fail |-> FALSE, regs |-> registers]>>)
       IN  /\ sensors_data' = <<[k |-> <<"A">>, v |-> r.result]>>
           /\ trace' = r.ops
    /\ pc' = "sensor_done"
    /\ UNCHANGED <<cycle, profiles, card, sd, modbus, ts, sensors_data_flat, saved,
                   csv_file, jsonl_file, bus, saves, csv0, registers, decoded>>

NextCodec == Decode \/ ReadOne

SpecCodec == InitCodec /\ [][NextCodec]_vars

-----------------------------------------------------------------------------
(* flatten_sensor_data on its own: Init draws the snapshot *)

MaxSnapshotDevices == 2

\* 42.0, the float of the registers 0x4228, 0x0000
Float42 == [is_none |-> FALSE, sign |-> 0, exponent |-> 132, fraction |-> 2621440]

SnapshotDeviceIds == {<<"A">>, <<"A", "_", "b">>, <<"B">>}

SnapshotNames == {Some(<<"c">>), Some(<<"b", "_", "c">>)}

SnapshotValues == {Float42, NoneValue}

\* the parameter maps: no, one or two names, in either order
SnapshotParams ==
    {<<>>}
    \cup {<<[k |-> n, v |-> x]>> : n \in SnapshotNames, x \in SnapshotValues}
    \cup {m \in {<<[k |-> n1, v |-> x1], [k |-> n2, v |-> x2]>> :
                    n1 \in SnapshotNames, n2 \in SnapshotNames,
                    x1 \in SnapshotValues, x2 \in SnapshotValues} :
            m[1].k # m[2].k}

SnapshotEntries == {[k |-> d, v |-> m] : d \in SnapshotDeviceIds, m \in SnapshotParams}

\* the snapshots: dicts, so no device id occurs twice
Snapshots ==
    {s \in UNION {[1..n -> SnapshotEntries] : n \in 0..MaxSnapshotDevices} :
        \A i, j \in 1..Len(s) : i # j => s[i].k # s[j].k}

InitFlatten ==
    /\ pc = "flatten"
    /\ sensors_data \in Snapshots
    /\ MainIdle
    /\ CodecIdle

NextFlatten == Flatten

SpecFlatten == InitFlatten /\ [][NextFlatten]_vars


-----------------------------------------------------------------------------
(* Register decoding *)

\* C8: for a pair [high, low] of unsigned 16-bit words the decoded float is
\* the 32-bit word high * 2^16 + low read as sign (bit 31), exponent (bits
\* 30..23) and fraction (bits 22..0): bit 15 of high is the sign, bits 14..7
\* the exponent, bits 6..0 of high followed by the 16 bits of low the
\* fraction.  The pair is recovered from the fields, so different pairs give
\* different words; [0x4228, 0] is 0x42280000, which is 42.0 (fraction with
\* the hidden bit times 2^(132 - 150) = 11010048 / 2^18), and [0, 0] is 0.0.
C8_DecodeIsHighLow ==
    (pc # "codec_call" /\ Len(registers) = 2) =>
        LET high == registers[1]
            low  == registers[2]
            f    == decoded.value
        IN  /\ ~decoded.raised
            /\ ~f.is_none
            /\ f.sign = high \div 32768
            /\ f.exponent = (high \div 128) % 256
            /\ f.fraction = (high % 128) * 65536 + low
            /\ high = f.sign * 32768 + f.exponent * 128 + f.fraction \div 65536
            /\ low = f.fraction % 65536
            /\ (registers = <<16936, 0>> =>
                    /\ f = Float42
                    /\ 8388608 + f.fraction = 42 * 262144)
            /\ (registers = <<0, 0>> =>
                    f.sign = 0 /\ f.exponent = 0 /\ f.fraction = 0)

\* the pair [0x4228, 0x0000] has been decoded to 42.0
C8_Witness ==
    /\ pc = "codec_done"
    /\ registers = <<16936, 0>>
    /\ decoded = [raised |-> FALSE, value |-> Float42]

\* C9: a register list whose length is not 2 makes modbus_registers_to_float
\* raise, with no value returned, and the parameter read_sensor read it for
\* holds the absent-marker.
C9_WrongLengthIsAbsent ==
    (pc # "codec_call" /\ Len(registers) # 2) =>
        /\ decoded.raised
        /\ decoded.value = NoneValue
        /\ (pc = "sensor_done" =>
                sensors_data = <<[k |-> <<"A">>,
                                  v |-> <<[k |-> Some(NameT), v |-> NoneValue]>>]>>)

\* three registers were read for a parameter and it holds the absent-marker
C9_Witness ==
    /\ pc = "sensor_done"
    /\ Len(registers) = 3
    /\ Len(trace) = 1 /\ trace[1].op = "read" /\ trace[1].b = 3
    /\ DictGet(DictGet(sensors_data, <<"A">>), Some(NameT)) = NoneValue


-----------------------------------------------------------------------------
(* Flattening *)

\* sum(len(params) for device in snapshot)
RECURSIVE SumOfSizes(_)
SumOfSizes(snapshot) ==
    IF snapshot = <<>> THEN 0
    ELSE Len(Head(snapshot).v) + SumOfSizes(Tail(snapshot))

\* the (device, parameter) pairs of a snapshot, as positions
Pairs(snapshot) ==
    UNION {{<<i, j>> : j \in 1..Len(snapshot[i].v)} : i \in 1..Len(snapshot)}

\* the text `<device_id>_<parameter_name>` of a pair
KeyText(snapshot, q) ==
    snapshot[q[1]].k \o <<"_">> \o snapshot[q[1]].v[q[2]].k[1]

HasUnderscore(text) == \E i \in 1..Len(text) : text[i] = "_"

\* every pair has its key in the record, with its value, and the record has
\* one key per pair
OneKeyPerPair(snapshot, flat) ==
    /\ Len(flat) = SumOfSizes(snapshot)
    /\ \A q \in Pairs(snapshot) :
        /\ DictHas(flat, KeyText(snapshot, q))
        /\ DictGet(flat, KeyText(snapshot, q)) = snapshot[q[1]].v[q[2]].v
    /\ \A q1, q2 \in Pairs(snapshot) :
        q1 # q2 => KeyText(snapshot, q1) # KeyText(snapshot, q2)

\* C7 as stated: for every snapshot with unique device ids the record has one
\* key `<device_id>_<parameter_name>` per (device, parameter) pair, with the
\* pair's value, and no two pairs share a key, also when ids contain `_`.
C7_AsStated ==
    pc = "save" => OneKeyPerPair(sensors_data, sensors_data_flat)

\* C7 amended: the same, for the snapshots none of whose device ids contains
\* `_` (parameter names may contain it); for every snapshot each key of the
\* record is the key of some pair and each pair's key is in the record.
C7_OneKeyPerPairWithoutUnderscoreIds ==
    pc = "save" =>
        /\ (\A i \in 1..Len(sensors_data) : ~HasUnderscore(sensors_data[i].k))
            => OneKeyPerPair(sensors_data, sensors_data_flat)
        /\ \A n \in 1..Len(sensors_data_flat) :
            \E q \in Pairs(sensors_data) :
                sensors_data_flat[n].k = KeyText(sensors_data, q)
        /\ \A q \in Pairs(sensors_data) :
            DictHas(sensors_data_flat, KeyText(sensors_data, q))
        /\ Len(sensors_data_flat) <= SumOfSizes(sensors_data)

\* two devices without `_` in their ids, two parameters each (one name holds
\* `_`), flattened to four keys
C7_Witness ==
    /\ pc = "save"
    /\ Len(sensors_data) = 2
    /\ \A i \in 1..2 : ~HasUnderscore(sensors_data[i].k) /\ Len(sensors_data[i].v) = 2
    /\ \E i \in 1..2 : HasUnderscore(sensors_data[1].v[i].k[1])
    /\ Len(sensors_data_flat) = 4


-----------------------------------------------------------------------------
(* Polling *)

\* main() holds the snapshot of this cycle
Polled == pc \in {"timestamp", "flatten", "save", "send", "sync", "shutdown", "done"}

\* the positions of the calls `op` in the trace of this cycle
Calls(op) == {n \in 1..Len(trace) : trace[n].op = op}

WellFormed(param) == param.name # None /\ param.addr # None

Pollable(profile) == profile.slave_addr # None /\ profile.params # <<>>

\* the (device, parameter) positions of the table whose registers are to be read
Readable(table) ==
    UNION {{<<d, i>> : i \in {j \in 1..Len(table[d].v.params) :
                                WellFormed(table[d].v.params[j])}} :
           d \in {e \in 1..Len(table) : Pollable(table[e].v)}}

Unaddressed == {d \in 1..Len(profiles) : profiles[d].v.slave_addr = None}

NoBusCallFor(id) ==
    \A n \in 1..Len(trace) : trace[n].op \in {"write", "read"} => trace[n].dev # id

-----------------------------------------------------------------------------
(* The cycle of main() *)

PhaseOps == {"activation", "poll", "flatten", "log", "log_returned", "uplink"}

\* the phases started so far in this cycle, in the order of the trace
RECURSIVE PhasesOf(_)
PhasesOf(events) ==
    IF events = <<>> THEN <<>>
    ELSE IF Head(events).op \in PhaseOps
         THEN <<Head(events).op>> \o PhasesOf(Tail(events))
         ELSE PhasesOf(Tail(events))

AllPhases == <<"activation", "poll", "flatten", "log", "log_returned", "uplink">>

\* the number of phases main() has been through at each position after setup
PhasesAt(position) ==
    CASE position = "activate" -> 0
      [] position = "read" -> 1
      [] position \in {"timestamp", "flatten"} -> 2
      [] position = "save" -> 3
      [] position = "send" -> 5
      [] position \in {"sync", "shutdown", "done"} -> 6

\* C3: main() leaves the cycle by an exception only during setup, before any
\* phase; after setup, whatever fails, the phases run once each in the order
\* activation, poll, flatten, log attempt (started, then returned), uplink,
\* and main() is exactly as far in that list as its position says, so it
\* reaches the uplink with every phase done and the log attempt returned.
C3_AllPhasesInOrder ==
    /\ pc \in {"crashed", "reset"} => trace = <<>>
    /\ pc \in {"boot", "ota", "setup_sd", "setup_modbus"} => trace = <<>>
    /\ pc \in {"activate", "read", "timestamp", "flatten", "save", "send", "sync",
               "shutdown", "done"} =>
            PhasesOf(trace) = SubSeq(AllPhases, 1, PhasesAt(pc))

\* a cycle is over in which a read failed and a file operation failed on a
\* mounted card, and the six phase marks are in the trace
C3_Witness ==
    /\ pc = "done"
    /\ modbus # None /\ sd # None
    /\ ~saved
    /\ \E n \in 1..Len(sensors_data_flat) : sensors_data_flat[n].v = NoneValue
    /\ \E n \in 1..Len(sensors_data_flat) : sensors_data_flat[n].v = Float42
    /\ PhasesOf(trace) = AllPhases

-----------------------------------------------------------------------------
(* The tabular and the structured sink *)

\* text.split(sep)
RECURSIVE Split(_, _)
Split(text, sep) ==
    IF \E i \in 1..Len(text) : text[i] = sep
    THEN LET i == CHOOSE n \in 1..Len(text) :
                    text[n] = sep /\ \A m \in 1..(n - 1) : text[m] # sep
         IN  <<SubSeq(text, 1, i - 1)>> \o Split(SubSeq(text, i + 1, Len(text)), sep)
    ELSE <<text>>

\* the lines of a file that ends with a newline
LinesOf(content) ==
    LET parts == Split(content, "\n")
    IN  SubSeq(parts, 1, Len(parts) - 1)

Terminated(content) == content # <<>> /\ content[Len(content)] = "\n"

FieldCount(line) == Len(Split(line, ","))

\* C4 as stated: from a missing CSV file, after N save_to_sd calls that all
\* returned True, the file holds N + 1 lines and every row has as many
\* comma-separated fields as the header.
C4_AsStated ==
    (csv0 = None /\ saves # <<>> /\ \A n \in 1..Len(saves) : saves[n]) =>
        /\ csv_file # None
        /\ Terminated(csv_file[1])
        /\ Len(LinesOf(csv_file[1])) = Len(saves) + 1
        /\ \A n \in 1..Len(LinesOf(csv_file[1])) :
            FieldCount(LinesOf(csv_file[1])[n]) = FieldCount(LinesOf(csv_file[1])[1])

\* the file has a complete first line that begins with `timestamp`
HeaderPresent(file) ==
    /\ file # None
    /\ \E i \in 1..Len(file[1]) : file[1][i] = "\n"
    /\ startswith_timestamp(strip(readline(file[1])))

\* the number of lines of the file that begin with `timestamp`
HeaderLines(file) ==
    Cardinality({n \in 1..Len(Split(file[1], "\n")) :
                    startswith_timestamp(Split(file[1], "\n")[n])})

\* the names of the columns a header line declares
ColumnsOf(line) == Tail(Split(SubSeq(line, 1, Len(line) - 1), ","))

IsSortedList(keys) == \A i, j \in 1..Len(keys) : i < j => ~StrLess(keys[j], keys[i])

\* save_to_sd opens the file to write a header line in this step
HeaderWritten ==
    /\ pc = "save"
    /\ Calls("csv_header") = {}
    /\ \E n \in 1..Len(trace') : trace'[n].op = "csv_header"

\* C5: a step of save_to_sd writes a header only when the file is missing or
\* its first line does not begin with `timestamp`; a header it writes (the
\* file changed and was not left empty by a failed write) is `timestamp`
\* followed by the keys of the record in sorted order; when a header is
\* present the step leaves the first line as it is and adds no other header
\* line, whatever the keys of the record.
C5_Step ==
    /\ HeaderWritten =>
            csv_file = None \/ ~startswith_timestamp(strip(readline(csv_file[1])))
    /\ (HeaderWritten /\ csv_file' # csv_file /\ csv_file' # Some(<<>>)) =>
            LET header == readline(csv_file'[1])
                keys   == DictKeys(sensors_data_flat)
            IN  /\ SubSeq(header, 1, 2) = <<"timestamp", ",">>
                /\ header[Len(header)] = "\n"
                /\ Len(keys) > 0 =>
                    /\ Len(ColumnsOf(header)) = Len(keys)
                    /\ Range(ColumnsOf(header)) = Range(keys)
                    /\ IsSortedList(ColumnsOf(header))
                /\ Len(keys) = 0 => header = <<"timestamp", ",", "\n">>
    /\ HeaderPresent(csv_file) =>
            /\ ~HeaderWritten
            /\ csv_file' # None
            /\ readline(csv_file'[1]) = readline(csv_file[1])
            /\ HeaderLines(csv_file') = HeaderLines(csv_file)

Logged == pc \in {"send", "sync", "shutdown", "done"}

\* C6 as stated: on a mounted card save_to_sd attempts the tabular append and
\* the structured append whichever of them fails, and returns a flag.
C6_AsStated ==
    (Logged /\ sd # None) =>
        /\ Calls("csv_header") # {} \/ Calls("csv_row") # {}
        /\ Calls("jsonl") # {}

\* C10 as stated: when setup_modbus returned None the cycle does no
\* activation write, no register read, no log write and no uplink.
C10_AsStated ==
    (modbus = None /\ pc \in {"activate", "read", "timestamp", "flatten", "save",
                              "send", "sync", "shutdown", "done"}) =>
        \A n \in 1..Len(trace) :
            trace[n].op \notin {"write", "read", "sleep", "csv_header", "csv_row",
                                "jsonl", "uplink"}


\* the text of a file; a file that does not exist holds nothing
ContentOf(file) == IF file = None THEN <<>> ELSE file[1]

IsPrefix(old, new) == Len(old) <= Len(new) /\ SubSeq(new, 1, Len(old)) = old

\* C11 as stated: whatever the files held, the content of each of the two
\* log files before a save_to_sd call is a prefix of its content after the
\* call, so no line written earlier is removed or overwritten.
C11_Step ==
    /\ IsPrefix(ContentOf(csv_file), ContentOf(csv_file'))
    /\ IsPrefix(ContentOf(jsonl_file), ContentOf(jsonl_file'))

C11_AsStated == [][C11_Step]_vars


-----------------------------------------------------------------------------
(* Activation and warm-up *)

\* activate_all_sensors has returned in this cycle
Activated == pc \in {"read", "timestamp", "flatten", "save", "send", "sync",
                     "shutdown", "done"}

\* the profiles of the table that have every activation field
Activatable == {d \in 1..Len(profiles) :
                    /\ profiles[d].v.slave_addr # None
                    /\ profiles[d].v.start_register # None
                    /\ profiles[d].v.start_value # None}

\* the largest warmup_ms of the table, 0 for an empty table
MaxWarmupOfTable ==
    LET all == {profiles[d].v.warmup_ms : d \in 1..Len(profiles)} \cup {0}
    IN  CHOOSE m \in all : \A n \in all : n <= m

\* C12: in a cycle with a transport, once activate_all_sensors has returned
\* there is one activation write per profile that has its activation fields,
\* in the order of the table and whatever the earlier writes answered; there
\* is a sleep exactly when some profile of the table (activated, skipped or
\* failed) has a positive warmup_ms, there is never more than one, and it
\* lasts the largest warmup_ms of the whole table; every write is before the
\* sleep and every register read after it.
C12_WritesThenOneSleepThenReads ==
    (modbus # None /\ Activated) =>
        /\ Cardinality(Calls("write")) = Cardinality(Activatable)
        /\ \A d \in Activatable : \E n \in Calls("write") :
                /\ trace[n].dev = profiles[d].k
                /\ trace[n].a = profiles[d].v.start_register[1]
                /\ trace[n].b = profiles[d].v.start_value[1]
                /\ Cardinality({m \in Calls("write") : m < n}) =
                        Cardinality({e \in Activatable : e < d})
        /\ Cardinality(Calls("sleep")) = IF MaxWarmupOfTable > 0 THEN 1 ELSE 0
        /\ \A s \in Calls("sleep") :
                /\ trace[s].a = MaxWarmupOfTable
                /\ \A w \in Calls("write") : w < s
                /\ \A r \in Calls("read") : s < r

\* the first profile has no bus address and the longest warm-up and was
\* skipped, the write to the second was not answered: the one sleep lasts the
\* warm-up of the skipped profile and the reads of the second follow it
C12_Witness ==
    /\ pc = "timestamp"
    /\ modbus # None
    /\ Len(profiles) = 2
    /\ profiles[1].v = NoAddressProfile
    /\ profiles[2].v = FullProfile
    /\ bus.w[2] = BusFail
    /\ Cardinality(Calls("write")) = 1
    /\ \E s \in Calls("sleep") :
            /\ trace[s].a = 800
            /\ Cardinality({r \in Calls("read") : s < r}) = 2

\* a failed write to the first device is followed by the write to the second
C12_WitnessFailedWrite ==
    /\ pc = "read"
    /\ modbus # None
    /\ Len(profiles) = 2
    /\ profiles[1].v = FullProfile
    /\ profiles[2].v = FullProfile
    /\ bus.w[1] = BusFail
    /\ Cardinality(Calls("write")) = 2


-----------------------------------------------------------------------------
(* Release of the storage medium *)

\* C13: once the medium is mounted main() is never left by an exception; no
\* unmount is attempted before the end of the cycle; at the end of a cycle
\* with a mounted medium there is exactly one unmount, it is the last call of
\* the cycle, after the log attempt has returned and after the uplink and
\* the sync, whatever save_to_sd returned and whether the uplink and the sync
\* went through; at the end of a cycle whose mount failed there is none.
C13_UnmountOnceAfterLog ==
    /\ sd # None => pc \notin {"crashed", "reset"}
    /\ pc # "done" => Calls("unmount") = {}
    /\ (pc = "done" /\ sd = None) => Calls("unmount") = {}
    /\ (pc = "done" /\ sd # None) =>
            /\ Calls("unmount") = {Len(trace)}
            /\ \E l \in Calls("log_returned"), u \in Calls("uplink"),
                   y \in Calls("sync") : l < u /\ u < y /\ y < Len(trace)

\* the cycle ends on a mounted medium after a file operation, the uplink and
\* the sync all failed, and the unmount is the last call
C13_Witness ==
    /\ pc = "done"
    /\ sd # None
    /\ ~saved
    /\ \E u \in Calls("uplink") : trace[u].a = 0
    /\ \E y \in Calls("sync") : trace[y].a = 0
    /\ trace[Len(trace)].op = "unmount"


-----------------------------------------------------------------------------
(* Parameter entries without name or addr *)

\* the (device, parameter) positions of the table on devices that are polled
Declared(table) ==
    UNION {{<<d, i>> : i \in 1..Len(table[d].v.params)} :
           d \in {e \in 1..Len(table) : Pollable(table[e].v)}}

\* the keys of the flattened record when every declared parameter of every
\* polled device has an entry
DeclaredKeys(table) ==
    {format_key(table[q[1]].k, table[q[1]].v.params[q[2]].name) : q \in Declared(table)}

\* with a transport, an entry of a polled device that lacks name or addr
\* causes no read, the absent-marker is stored under its name, and the
\* well-formed entries after it are read
C14_BadEntryIsNotRead ==
    (Polled /\ modbus # None) =>
        \A q \in Declared(profiles) :
            LET id    == profiles[q[1]].k
                param == profiles[q[1]].v.params[q[2]]
            IN  /\ ~WellFormed(param) =>
                    /\ DictHas(DictGet(sensors_data, id), param.name)
                    /\ DictGet(DictGet(sensors_data, id), param.name) = NoneValue
                    /\ param.addr # None =>
                        \A n \in Calls("read") :
                            ~(trace[n].dev = id /\ trace[n].a = param.addr[1])
                /\ WellFormed(param) =>
                    \E n \in Calls("read") :
                        trace[n].dev = id /\ trace[n].a = param.addr[1]
        /\ Cardinality(Calls("read")) = Cardinality(Readable(profiles))

\* once polled, the map of a polled device has one entry per declared
\* parameter, and the flattened record of every cycle has the same keys, one
\* per declared parameter of the table
C14_OneEntryPerParameter ==
    /\ Polled =>
        \A d \in 1..Len(profiles) :
            Pollable(profiles[d].v) =>
                /\ DictHas(sensors_data, profiles[d].k)
                /\ Len(DictGet(sensors_data, profiles[d].k)) = Len(profiles[d].v.params)
    /\ pc \in {"save", "send", "sync", "shutdown", "done"} =>
        /\ Len(sensors_data_flat) = Cardinality(Declared(profiles))
        /\ Range(DictKeys(sensors_data_flat)) = DeclaredKeys(profiles)

\* C14 as stated: a parameter entry without name or addr causes no transport
\* call, the absent-marker is stored under its name and the later parameters
\* are read; the map of a polled device holds exactly one entry per declared
\* parameter, so the snapshot and the flattened record have the same key set
\* in every cycle whatever reads failed.
C14_AsStated == C14_BadEntryIsNotRead /\ C14_OneEntryPerParameter

\* the same, in the cycles that have a transport
C14_OneEntryPerParameterWithTransport == modbus # None => C14_OneEntryPerParameter


=============================================================================
